---- MODULE Spec2Model ----
(***************************************************************************)
(* Model of hyprsca / wlscsr: saving and restoring monitor configurations, *)
(* keyed by a fingerprint of the connected heads' (make, model, serial).   *)
(*                                                                         *)
(* Strings that the code orders or hashes (make, model, serial) are        *)
(* sequences of bytes.  Names are only compared for equality and are TLA+  *)
(* strings.  Option<T> is a sequence of length 0 (None) or 1 (Some).       *)
(***************************************************************************)
EXTENDS Integers, Sequences, FiniteSets, Bags, TLC

None == <<>>
Some(v) == <<v>>

Min(S) == CHOOSE x \in S : \A y \in S : x <= y

(***************************************************************************)
(* Values the environment can take.                                        *)
(***************************************************************************)
\* connector names the compositor hands out
Names == {"eDP-1", "DP-1", "DP-2"}

\* two geometries (width, height, refresh_rate, x, y, scale, transform, vrr)
G1 == [width |-> 1920, height |-> 1080, refresh_rate |-> 60, x |-> 0, y |-> 0,
       scale |-> 1, transform |-> 0, vrr |-> FALSE]
G2 == [width |-> 2560, height |-> 1440, refresh_rate |-> 144, x |-> 1920, y |-> 0,
       scale |-> 2, transform |-> 1, vrr |-> TRUE]

(***************************************************************************)
(* types.rs: Head::cmp_mms, and the stable sort_by that uses it.           *)
(***************************************************************************)
\* String::cmp: bytewise lexicographic order
StrCmp(a, b) ==
    LET n == IF Len(a) < Len(b) THEN Len(a) ELSE Len(b)
        diffs == {i \in 1..n : a[i] # b[i]}
    IN  IF diffs = {}
        THEN IF Len(a) < Len(b) THEN "Less"
             ELSE IF Len(a) > Len(b) THEN "Greater" ELSE "Equal"
        ELSE IF a[Min(diffs)] < b[Min(diffs)] THEN "Less" ELSE "Greater"

\* Ordering::then_with
ThenWith(o, next) == IF o = "Equal" THEN next ELSE o

cmp_mms(h, other) ==
    ThenWith(StrCmp(h.make, other.make),
             ThenWith(StrCmp(h.model, other.model), StrCmp(h.serial, other.serial)))

\* h put at the end wherever it belongs
InsertLast(s, h) == s \o <<h>>

\* insertion of h behind every element that does not compare Greater (stable)
SortInsert(s, h) ==
    LET k == Cardinality({i \in 1..Len(s) : cmp_mms(s[i], h) # "Greater"})
    IN  SubSeq(s, 1, k) \o <<h>> \o SubSeq(s, k + 1, Len(s))

\* a sort_by that leaves the order as it is
unsorted(s) == s

RECURSIVE sort_by_cmp_mms(_)
sort_by_cmp_mms(s) ==
    IF s = <<>> THEN <<>>
    ELSE SortInsert(sort_by_cmp_mms(SubSeq(s, 1, Len(s) - 1)), s[Len(s)])

Identity(h) == <<h.make, h.model, h.serial>>

(***************************************************************************)
(* hash_heads: the bytes fed to SHA-256.                                   *)
(***************************************************************************)
\* usize::to_le_bytes, 8 bytes; n stays below 2^31 here, so bytes 5 to 8 are 0
to_le_bytes(n) ==
    <<n % 256, (n \div 256) % 256, (n \div 65536) % 256, (n \div 16777216) % 256,
      0, 0, 0, 0>>

\* hasher.update for one string without its length prefix
HashStrNoLen(s) == s

HashStr(s) == to_le_bytes(Len(s)) \o s

RECURSIVE HashHeadsBody(_)
HashHeadsBody(heads) ==
    IF heads = <<>> THEN <<>>
    ELSE HashStr(heads[1].make) \o HashStr(heads[1].model) \o HashStr(heads[1].serial)
         \o HashHeadsBody(Tail(heads))

\* everything hash_heads passes to hasher.update, in order
HashInput(heads) == to_le_bytes(Len(heads)) \o HashHeadsBody(heads)

\* SHA-256 is taken to be collision free: the digest stands for its input
hash_heads(heads) == [sha256 |-> HashInput(heads)]

(***************************************************************************)
(* State.                                                                  *)
(***************************************************************************)
VARIABLES
    prog,       \* which binary the behaviour is about: "hyprsca" or "wlscsr"
    monitors,   \* what the compositor reports, in its enumeration order
    lidFile,    \* content of the lid indicator file (None: unreadable)
    store,      \* the state directory of prog: path -> file content
    savedAt,    \* history: identity bag -> {<<identity, config>>} at its last save
    inv,        \* the invocation that just ran to completion
    hl1, hl2,   \* fingerprint check: two active head lists
    fp1, fp2,   \* fingerprint check: their digests, once computed
    disk,       \* concurrent saves: the one snapshot file (None: missing)
    pc,         \* concurrent saves: where each save invocation stands
    buf,        \* concurrent saves: the text each invocation writes
    lastWriter, \* concurrent saves: whose write call came last (0: nobody's)
    seen,       \* concurrent saves: what the concurrent restore read
    raw,        \* enumeration: one display as the provider reports it
    made        \* enumeration: the Head made of it

vars == <<prog, monitors, lidFile, store, savedAt, inv, hl1, hl2, fp1, fp2,
          disk, pc, buf, lastWriter, seen, raw, made>>
progVars == <<prog, monitors, lidFile, store, savedAt, inv>>
hashVars == <<hl1, hl2, fp1, fp2>>
raceVars == <<disk, pc, buf, lastWriter, seen>>
enumVars == <<raw, made>>

Progs == {"hyprsca", "wlscsr"}

\* the two save invocations that run side by side
Savers == {1, 2}

\* no concurrent invocation has started
RaceIdle ==
    /\ disk = None
    /\ pc = [p \in Savers |-> "start"]
    /\ buf = [p \in Savers |-> <<>>]
    /\ lastWriter = 0
    /\ seen = None

\* no display has been reported
EnumIdle == raw = None /\ made = None
Backends == {"WlrRandr", "Hyprctl"}

\* the monitors that exist: the laptop panel (A,B,1) and two identical
\* external monitors (C,D,2)
PanelId == <<<<65>>, <<66>>, <<49>>>>
ExternalId == <<<<67>>, <<68>>, <<50>>>>
IdPool == {PanelId, ExternalId}
Stock(id) == IF id = PanelId THEN 1 ELSE 2

\* the geometry an enabled monitor runs at
GeomOf(id) == IF id = PanelId THEN G1 ELSE G2

Monitor(name, id, disabled) ==
    [name |-> name, make |-> id[1], model |-> id[2], serial |-> id[3],
     disabled |-> disabled, geom |-> GeomOf(id)]

\* "open\n", "closed\n"
LidOpen == <<111, 112, 101, 110, 10>>
LidClosed == <<99, 108, 111, 115, 101, 100, 10>>
LidContents == {Some(LidOpen), Some(LidClosed)}

\* the [[lid]] rules of the configuration file
LidRules == <<[file |-> "lid_state", head |-> "eDP-1"]>>

\* snapshot files the state directory holds at most
MaxFiles == 1

(***************************************************************************)
(* main: exclusion filter, enumeration, sort.                              *)
(***************************************************************************)
IsAsciiWhitespace(b) == b \in {9, 10, 12, 13, 32}

\* a trim that leaves the bytes as they are
no_trim(bytes) == bytes

\* <[u8]>::trim_ascii
trim_ascii(bytes) ==
    LET keep == {i \in 1..Len(bytes) : ~IsAsciiWhitespace(bytes[i])}
    IN  IF keep = {} THEN <<>>
        ELSE SubSeq(bytes, Min(keep), CHOOSE i \in keep : \A j \in keep : j <= i)

\* <[u8]>::ends_with
ends_with(bytes, suffix) ==
    /\ Len(suffix) <= Len(bytes)
    /\ SubSeq(bytes, Len(bytes) - Len(suffix) + 1, Len(bytes)) = suffix

\* b"closed"
Sentinel == <<99, 108, 111, 115, 101, 100>>

\* std::fs::read(file): the one indicator file of the model
ReadIndicator(file, lf) == lf

ignored_head_names(lf) ==
    {LidRules[i].head : i \in {j \in DOMAIN LidRules :
        LET contents == ReadIndicator(LidRules[j].file, lf)
        IN  /\ contents # None
            /\ ends_with(trim_ascii(contents[1]), Sentinel)}}

\* HyprctlHead::make_head, impl From<&Monitor> for Head
make_head(mon) ==
    [name |-> Some(mon.name), make |-> mon.make, model |-> mon.model,
     serial |-> mon.serial,
     config |-> IF mon.disabled THEN None ELSE Some(mon.geom)]

get_all_heads(mons) == [i \in DOMAIN mons |-> make_head(mons[i])]

IsIgnored(h, lf) == h.name # None /\ h.name[1] \in ignored_head_names(lf)

SelectIgnored(all, lf) == SelectSeq(all, LAMBDA h : IsIgnored(h, lf))

SelectActive(all, lf) == SelectSeq(all, LAMBDA h : ~IsIgnored(h, lf))

\* the local `ignored_heads` of main
IgnoredHeads(mons, lf) == SelectIgnored(get_all_heads(mons), lf)

\* the local `heads` of main after heads.sort_by(Head::cmp_mms)
ActiveHeads(mons, lf) == sort_by_cmp_mms(SelectActive(get_all_heads(mons), lf))

(***************************************************************************)
(* The snapshot file: serde_json of Vec<Head>.                             *)
(***************************************************************************)
\* HeadConfig <-> JSON object, field by field
ConfigToJson(c) ==
    [width |-> c.width, height |-> c.height, refresh_rate |-> c.refresh_rate,
     x |-> c.x, y |-> c.y, scale |-> c.scale, transform |-> c.transform,
     vrr |-> c.vrr]

ConfigFromJson(o) ==
    [width |-> o.width, height |-> o.height, refresh_rate |-> o.refresh_rate,
     x |-> o.x, y |-> o.y, scale |-> o.scale, transform |-> o.transform,
     vrr |-> o.vrr]

\* which keys Serialize writes for a Head: wlscsr skips name always, hyprsca
\* skips it when None; both skip config when None
HeadJsonKeys(p, h) ==
    {"make", "model", "serial"}
        \cup (IF h.config # None THEN {"config"} ELSE {})
        \cup (IF p = "hyprsca" /\ h.name # None THEN {"name"} ELSE {})

HeadToJson(p, h) ==
    [k \in HeadJsonKeys(p, h) |->
        CASE k = "make" -> h.make
          [] k = "model" -> h.model
          [] k = "serial" -> h.serial
          [] k = "config" -> ConfigToJson(h.config[1])
          [] k = "name" -> h.name[1]]

\* Deserialize for Head: make, model, serial are required
HeadJsonOk(o) == {"make", "model", "serial"} \subseteq DOMAIN o

HeadFromJson(p, o) ==
    [name |-> IF p = "hyprsca" /\ "name" \in DOMAIN o THEN Some(o.name) ELSE None,
     make |-> o.make, model |-> o.model, serial |-> o.serial,
     config |-> IF "config" \in DOMAIN o THEN Some(ConfigFromJson(o.config)) ELSE None]

\* serde_json::to_string_pretty(&heads)
to_string_pretty(p, hs) ==
    [kind |-> "array", items |-> [i \in DOMAIN hs |-> HeadToJson(p, hs[i])]]

\* serde_json::from_slice::<Vec<Head>> succeeds
ParseOk(content) ==
    /\ content.kind = "array"
    /\ \A i \in DOMAIN content.items : HeadJsonOk(content.items[i])

from_slice(p, content) == [i \in DOMAIN content.items |-> HeadFromJson(p, content.items[i])]

\* place_state_file / get_state_file of "<hex digest>.json" under the prefix
StatePath(p, hs) == [prefix |-> p, digest |-> hash_heads(hs), ext |-> "json"]

\* heads.iter_mut().for_each(|h| h.name = None)
StripNames(hs) == [i \in DOMAIN hs |-> [hs[i] EXCEPT !.name = None]]

\* what Commands::Save writes
SaveContent(p, hs) == to_string_pretty(p, StripNames(hs))

(***************************************************************************)
(* load_head_config / restore_config up to the provider call.              *)
(***************************************************************************)
Err(kind) == [kind |-> kind]

ZipLen(saved, hs) == IF Len(saved) < Len(hs) THEN Len(saved) ELSE Len(hs)

\* indices (0-based, as enumerate() counts) of saved_heads.iter_mut().zip(heads)
\* where the identities disagree
MismatchIdx(saved, hs) ==
    {i \in 0..(ZipLen(saved, hs) - 1) : Identity(saved[i + 1]) # Identity(hs[i + 1])}

\* a loop that runs to the end and reports the last index that disagrees
LastBad(bad) == CHOOSE i \in bad : \A j \in bad : j <= i

\* the loop returns at the first index that disagrees
FirstBad(bad) == Min(bad)

\* a length check that lets every snapshot through
NeverDiffers(loaded, hs) == FALSE

\* saved_heads.len() != heads.len()
LengthsDiffer(loaded, hs) == Len(loaded) # Len(hs)

\* a loop that leaves saved_head.name as deserialized
KeepSavedNames(saved, hs) == saved

\* saved_head.name = head.name.clone()
CopyNames(saved, hs) ==
    [i \in DOMAIN saved |->
        IF i <= Len(hs) THEN [saved[i] EXCEPT !.name = hs[i].name] ELSE saved[i]]

\* ignored heads cloned with their current configuration
KeepConfig(ign) == ign

\* ignored_heads with h.config = None
DisableAll(ign) == [i \in DOMAIN ign |-> [ign[i] EXCEPT !.config = None]]

\* Result<Vec<Head>>: [err |-> None, list |-> ...] or [err |-> Some(e), list |-> <<>>]
Reconcile(p, st, hs, ign) ==
    LET path == StatePath(p, hs) IN
    IF path \notin DOMAIN st
    THEN [err |-> Some(Err("NotFound")), list |-> <<>>]
    ELSE IF ~ParseOk(st[path])
    THEN [err |-> Some(Err("Corrupt")), list |-> <<>>]
    ELSE LET loaded == from_slice(p, st[path]) IN
         IF LengthsDiffer(loaded, hs)
         THEN [err |-> Some([kind |-> "LengthMismatch", saved |-> Len(loaded),
                             connected |-> Len(hs)]),
               list |-> <<>>]
         ELSE LET saved_heads == sort_by_cmp_mms(loaded)
                  bad == MismatchIdx(saved_heads, hs)
              IN  IF bad # {}
                  THEN [err |-> Some([kind |-> "IdentityMismatch", idx |-> FirstBad(bad)]),
                        list |-> <<>>]
                  ELSE [err |-> None,
                        list |-> CopyNames(saved_heads, hs) \o DisableAll(ign)]

(***************************************************************************)
(* The fallback instructions, per provider.                                *)
(***************************************************************************)
\* the names of the heads that are on only
EnabledHeadNames(hs) ==
    LET named == SelectSeq(hs, LAMBDA h : h.name # None /\ h.config # None)
    IN  [i \in DOMAIN named |-> named[i].name[1]]

\* filter_map(|h| h.name.clone())
HeadNames(hs) ==
    LET named == SelectSeq(hs, LAMBDA h : h.name # None)
    IN  [i \in DOMAIN named |-> named[i].name[1]]

TurnOff(name) == [output |-> name, state |-> "off"]

\* every head placed with --pos 0,0
WlrRandrOnAtOrigin(names, i) ==
    [output |-> names[i], state |-> "on", mode |-> "preferred",
     place |-> [kind |-> "pos", x |-> 0, y |-> 0],
     scale |-> "1", transform |-> "normal"]

\* wlr-randr: --output N --on --preferred (--pos 0,0 | --right-of PREV)
\*            --scale 1 --transform normal
WlrRandrOn(names, i) ==
    [output |-> names[i], state |-> "on", mode |-> "preferred",
     place |-> IF i = 1 THEN [kind |-> "pos", x |-> 0, y |-> 0]
               ELSE [kind |-> "right-of", of |-> names[i - 1]],
     scale |-> "1", transform |-> "normal"]

\* WlrRandrBackend::fallback_head_config
WlrRandrFallback(active, inactive) ==
    [i \in DOMAIN active |-> WlrRandrOn(active, i)]
        \o [i \in DOMAIN inactive |-> TurnOff(inactive[i])]

\* hyprctl --batch "keyword monitor N,preferred,auto,1;"
HyprctlOn(name) ==
    [output |-> name, state |-> "on", mode |-> "preferred",
     place |-> [kind |-> "auto"], scale |-> "1"]

\* HyprctlBackend::fallback_head_config
HyprctlFallback(active, inactive) ==
    [i \in DOMAIN active |-> HyprctlOn(active[i])]
        \o [i \in DOMAIN inactive |-> TurnOff(inactive[i])]

\* hyprsca: "keyword monitor N,preferred,auto,auto" for the active heads only
NativeOn(name) ==
    [output |-> name, state |-> "on", mode |-> "preferred",
     place |-> [kind |-> "auto"], scale |-> "auto"]

NativeFallback(active) == [i \in DOMAIN active |-> NativeOn(active[i])]

\* backend.fallback_head_config(&active_head_names, &inactive_head_names)
fallback_head_config(backend, active, inactive) ==
    IF backend = "WlrRandr" THEN WlrRandrFallback(active, inactive)
    ELSE HyprctlFallback(active, inactive)

(***************************************************************************)
(* Invocations.  inv records what the finished invocation saw and did:     *)
(*   cmd, flag (--fallback-to-default), backend, heads, ignored_heads,     *)
(*   path, err (the error of load_head_config / restore_config),           *)
(*   applied (the list handed to set_head_config / send_recipe_sync),      *)
(*   fallback (the fallback instructions sent), exit ("ok" or "fail").     *)
(***************************************************************************)
Idle ==
    [cmd |-> "none", flag |-> FALSE, backend |-> "none", heads |-> <<>>,
     ignored_heads |-> <<>>, path |-> None, err |-> None, applied |-> None,
     fallback |-> None, exit |-> "ok"]

\* no invocation is running: the single-threaded program runs to completion
NoInvocation == inv.cmd = "none"

View(cmd) ==
    LET hs == ActiveHeads(monitors, lidFile)
    IN  [Idle EXCEPT !.cmd = cmd,
                     !.heads = hs,
                     !.ignored_heads = IgnoredHeads(monitors, lidFile),
                     !.path = Some(StatePath(prog, hs))]

\* a monitor the lid rule takes out: named eDP-1 while the file says closed
LidExcluded(mon, lf) == mon.name = "eDP-1" /\ lf = Some(LidClosed)

\* the identities of the monitors that are not taken out, with multiplicity
ActiveIdBag(mons, lf) ==
    LET act == {i \in DOMAIN mons : ~LidExcluded(mons[i], lf)}
        idOf(i) == <<mons[i].make, mons[i].model, mons[i].serial>>
    IN  [id \in {idOf(i) : i \in act} |-> Cardinality({i \in act : idOf(i) = id})]

\* what the provider reports of the monitors that are not taken out:
\* identity and geometry (None when off)
ActiveReport(mons, lf) ==
    {<<<<mons[i].make, mons[i].model, mons[i].serial>>,
       IF mons[i].disabled THEN None ELSE Some(mons[i].geom)>> :
        i \in {j \in DOMAIN mons : ~LidExcluded(mons[j], lf)}}

\* a write that leaves nothing else in the directory
WriteFileAlone(st, path, content) == [q \in {path} |-> content]

\* std::fs::write(path, content): the file is created or wholly replaced
WriteFile(st, path, content) ==
    [q \in DOMAIN st \cup {path} |-> IF q = path THEN content ELSE st[q]]

\* Commands::Save, while the state directory holds at most max files
SaveUpTo(max) ==
    /\ NoInvocation
    /\ LET v == View("save")
           path == v.path[1]
       IN  /\ path \in DOMAIN store \/ Cardinality(DOMAIN store) < max
           /\ store' = WriteFile(store, path, SaveContent(prog, v.heads))
           /\ savedAt' = [b \in DOMAIN savedAt \cup {ActiveIdBag(monitors, lidFile)} |->
                           IF b = ActiveIdBag(monitors, lidFile)
                           THEN ActiveReport(monitors, lidFile) ELSE savedAt[b]]
           /\ inv' = v
    /\ UNCHANGED <<prog, monitors, lidFile, hashVars, raceVars, enumVars>>

\* Commands::Save
Save == SaveUpTo(MaxFiles)

\* Commands::Info
Info ==
    /\ NoInvocation
    /\ inv' = View("info")
    /\ UNCHANGED <<prog, monitors, lidFile, store, savedAt, hashVars, raceVars, enumVars>>

\* wlscsr, Commands::Restore, given r, the result of load_head_config:
\* set_head_config, or the fallback branch.  applyOk / fbOk: whether the
\* provider call succeeds.
RestoreWlscsr(v, r, applyOk, fbOk) ==
    IF r.err = None
    THEN [v EXCEPT !.applied = Some(r.list),
                   !.err = IF applyOk THEN None ELSE Some(Err("Provider")),
                   !.exit = IF applyOk THEN "ok" ELSE "fail"]
    ELSE IF v.flag
    THEN [v EXCEPT !.err = r.err,
                   !.fallback = Some(fallback_head_config(v.backend,
                                    HeadNames(v.heads), HeadNames(v.ignored_heads))),
                   !.exit = IF fbOk THEN "ok" ELSE "fail"]
    ELSE [v EXCEPT !.err = r.err, !.exit = "fail"]

\* hyprsca, Commands::Restore, given r, the outcome of restore_config before
\* its provider call: restore_config makes the provider call itself, and main
\* looks only at whether restore_config returned Err
RestoreHyprsca(v, r, applyOk, fbOk) ==
    LET sent == IF r.err = None THEN Some(r.list) ELSE None
        result == IF r.err # None THEN r.err
                  ELSE IF applyOk THEN None ELSE Some(Err("Provider"))
    IN  IF result = None
        THEN [v EXCEPT !.applied = sent]
        ELSE IF v.flag
        THEN [v EXCEPT !.applied = sent, !.err = result,
                       !.fallback = Some(NativeFallback(HeadNames(v.heads))),
                       !.exit = IF fbOk THEN "ok" ELSE "fail"]
        ELSE [v EXCEPT !.applied = sent, !.err = result, !.exit = "ok"]

Restore ==
    /\ NoInvocation
    /\ LET v == View("restore")
           r == Reconcile(prog, store, v.heads, v.ignored_heads)
       IN  \E flag \in BOOLEAN, applyOk \in BOOLEAN, fbOk \in BOOLEAN :
              \/ /\ prog = "wlscsr"
                 /\ \E backend \in Backends :
                       inv' = RestoreWlscsr([v EXCEPT !.flag = flag, !.backend = backend],
                                            r, applyOk, fbOk)
              \/ /\ prog = "hyprsca"
                 /\ inv' = RestoreHyprsca([v EXCEPT !.flag = flag, !.backend = "native"],
                                          r, applyOk, fbOk)
    /\ UNCHANGED <<prog, monitors, lidFile, store, savedAt, hashVars, raceVars, enumVars>>

\* the process ends; its exit status has been seen
Exit ==
    /\ ~NoInvocation
    /\ inv' = Idle
    /\ UNCHANGED <<prog, monitors, lidFile, store, savedAt, hashVars, raceVars, enumVars>>

(***************************************************************************)
(* The environment between invocations.                                    *)
(***************************************************************************)
Connected(id) ==
    Cardinality({i \in DOMAIN monitors :
        <<monitors[i].make, monitors[i].model, monitors[i].serial>> = id})

UsedNames == {monitors[i].name : i \in DOMAIN monitors}

InsertAt(s, i, e) == SubSeq(s, 1, i - 1) \o <<e>> \o SubSeq(s, i, Len(s))

RemoveAt(s, i) == SubSeq(s, 1, i - 1) \o SubSeq(s, i + 1, Len(s))

\* a monitor is plugged in
Connect ==
    /\ NoInvocation
    /\ \E n \in Names \ UsedNames, id \in IdPool, disabled \in BOOLEAN,
          i \in 1..(Len(monitors) + 1) :
          /\ Connected(id) < Stock(id)
          /\ monitors' = InsertAt(monitors, i, Monitor(n, id, disabled))
    /\ UNCHANGED <<prog, lidFile, store, savedAt, inv, hashVars, raceVars, enumVars>>

\* a monitor is unplugged
Disconnect ==
    /\ NoInvocation
    /\ \E i \in DOMAIN monitors : monitors' = RemoveAt(monitors, i)
    /\ UNCHANGED <<prog, lidFile, store, savedAt, inv, hashVars, raceVars, enumVars>>

\* the compositor hands the names out differently (reconnect, reboot)
Rename ==
    /\ NoInvocation
    /\ \E i \in DOMAIN monitors : \E n \in Names \ {monitors[i].name} :
          monitors' = [j \in DOMAIN monitors |->
              IF j = i THEN [monitors[j] EXCEPT !.name = n]
              ELSE IF monitors[j].name = n
                   THEN [monitors[j] EXCEPT !.name = monitors[i].name]
                   ELSE monitors[j]]
    /\ UNCHANGED <<prog, lidFile, store, savedAt, inv, hashVars, raceVars, enumVars>>

\* the compositor lists the monitors in another order
Reorder ==
    /\ NoInvocation
    /\ \E i \in 1..(Len(monitors) - 1) :
          monitors' = [monitors EXCEPT ![i] = monitors[i + 1], ![i + 1] = monitors[i]]
    /\ UNCHANGED <<prog, lidFile, store, savedAt, inv, hashVars, raceVars, enumVars>>

\* the user turns a monitor off or on
Reconfigure ==
    /\ NoInvocation
    /\ \E i \in DOMAIN monitors :
          monitors' = [monitors EXCEPT ![i] = [@ EXCEPT !.disabled = ~@]]
    /\ UNCHANGED <<prog, lidFile, store, savedAt, inv, hashVars, raceVars, enumVars>>

\* the lid opens or closes: the indicator file changes
LidChange ==
    /\ NoInvocation
    /\ \E c \in LidContents \ {lidFile} : lidFile' = c
    /\ UNCHANGED <<prog, monitors, store, savedAt, inv, hashVars, raceVars, enumVars>>

Init ==
    /\ prog \in Progs
    /\ monitors = <<>>
    /\ lidFile = Some(LidOpen)
    /\ store = <<>>
    /\ savedAt = <<>>
    /\ inv = Idle
    /\ hl1 = <<>> /\ hl2 = <<>> /\ fp1 = None /\ fp2 = None
    /\ RaceIdle /\ EnumIdle

Next ==
    \/ Save
    \/ Restore
    \/ Info
    \/ Exit
    \/ Connect
    \/ Disconnect
    \/ Rename
    \/ Reorder
    \/ Reconfigure
    \/ LidChange

Spec == Init /\ [][Next]_vars

(***************************************************************************)
(* The state directory is a plain directory: files can get there by other  *)
(* hands (copied, renamed, edited, cut short).  SpecForeign adds that.     *)
(***************************************************************************)
\* records in a foreign snapshot
MaxForeign == 2

ForeignObject(id) ==
    [make |-> id[1], model |-> id[2], serial |-> id[3], config |-> ConfigToJson(GeomOf(id))]

ForeignContents ==
    {[kind |-> "garbage", items |-> <<>>],
     [kind |-> "array", items |-> <<[make |-> <<65>>, model |-> <<66>>]>>]}
    \cup {[kind |-> "array", items |-> [i \in DOMAIN ids |-> ForeignObject(ids[i])]] :
            ids \in UNION {[1..n -> IdPool] : n \in 0..MaxForeign}}

\* every file in the store was written by a save of this behaviour
Pristine == DOMAIN store = {} \/ DOMAIN savedAt # {}

\* a foreign file appears under the name the connected set hashes to
PlaceForeign ==
    /\ NoInvocation
    /\ DOMAIN store = {}
    /\ \E c \in ForeignContents :
          store' = [q \in {StatePath(prog, ActiveHeads(monitors, lidFile))} |-> c]
    /\ UNCHANGED <<prog, monitors, lidFile, savedAt, inv, hashVars, raceVars, enumVars>>

ForeignNext ==
    \/ PlaceForeign
    \/ Save
    \/ Restore
    \/ Info
    \/ Exit
    \/ (Pristine /\ Connect)
    \/ (Pristine /\ Disconnect)
    \/ (Pristine /\ Rename)
    \/ (Pristine /\ Reorder)
    \/ (Pristine /\ Reconfigure)
    \/ (Pristine /\ LidChange)

SpecForeign == Init /\ [][ForeignNext]_vars

(***************************************************************************)
(* The fingerprint on its own: two enumerations, each fingerprinted the    *)
(* way main does it (filter, sort, hash_heads).                            *)
(***************************************************************************)
\* heads in one enumeration
MaxHashHeads == 2

\* "AB" cut into make, model, serial at different places, and neighbours that
\* differ from them in one field
HashIds ==
    {<<<<65, 66>>, <<>>, <<>>>>, <<<<65>>, <<66>>, <<>>>>, <<<<>>, <<65>>, <<66>>>>,
     <<<<65>>, <<67>>, <<>>>>, <<<<65>>, <<>>, <<>>>>, <<<<>>, <<>>, <<>>>>}

IdLists == UNION {[1..n -> HashIds] : n \in 0..MaxHashHeads}

\* the first enumeration: names DP-1.., every monitor enabled
FirstNames == <<"DP-1", "DP-2", "DP-3", "DP-4">>
\* the second: other names, beginning with the lid-ruled one, every monitor off
SecondNames == <<"eDP-1", "DP-2", "DP-1", "DP-3">>

Enumeration(ids, names, disabled) ==
    [i \in DOMAIN ids |-> Monitor(names[i], ids[i], disabled)]

\* the digest main computes for an enumeration
Fingerprint(mons, lf) == hash_heads(ActiveHeads(mons, lf))

HashInit ==
    /\ prog = "wlscsr" /\ monitors = <<>> /\ store = <<>> /\ savedAt = <<>>
    /\ inv = Idle
    /\ lidFile \in LidContents
    /\ \E a \in IdLists, b \in IdLists :
          /\ hl1 = Enumeration(a, FirstNames, FALSE)
          /\ hl2 = Enumeration(b, SecondNames, TRUE)
    /\ fp1 = None /\ fp2 = None
    /\ RaceIdle /\ EnumIdle

HashFirst ==
    /\ fp1 = None
    /\ fp1' = Some(Fingerprint(hl1, lidFile))
    /\ UNCHANGED <<progVars, hl1, hl2, fp2, raceVars, enumVars>>

HashSecond ==
    /\ fp1 # None /\ fp2 = None
    /\ fp2' = Some(Fingerprint(hl2, lidFile))
    /\ UNCHANGED <<progVars, hl1, hl2, fp1, raceVars, enumVars>>

HashNext == HashFirst \/ HashSecond

SpecHash == HashInit /\ [][HashNext]_vars

(***************************************************************************)
(* Properties of the fingerprint (under SpecHash).                         *)
(***************************************************************************)
BothHashed == fp1 # None /\ fp2 # None

\* C2: two enumerations whose non-excluded monitors have the same identities
\* with the same multiplicities get the same fingerprint, whatever the
\* enumeration order, the names and the geometry (the first enumeration is
\* enabled and named DP-n, the second is disabled and named differently).
C2_OrderIndependent ==
    (BothHashed /\ ActiveIdBag(hl1, lidFile) = ActiveIdBag(hl2, lidFile)) => fp1 = fp2

\* two enumerations of the same two distinct identities in opposite order,
\* both fingerprinted
C2_Witness ==
    /\ BothHashed
    /\ Len(hl1) = 2 /\ Len(hl2) = 2
    /\ ActiveIdBag(hl1, lidFile) = ActiveIdBag(hl2, lidFile)
    /\ hl1[1].make # hl1[2].make
    /\ hl1[1].make = hl2[2].make /\ hl1[2].make = hl2[1].make
    /\ hl1[1].name # hl2[2].name

\* C3: two enumerations whose non-excluded identity multisets differ feed
\* different byte sequences to the hash, so their fingerprints differ.
C3_SetSensitive ==
    (BothHashed /\ ActiveIdBag(hl1, lidFile) # ActiveIdBag(hl2, lidFile)) => fp1 # fp2

\* make="AB", model="" against make="A", model="B": same bytes, other cut
C3_Witness ==
    /\ BothHashed
    /\ Len(hl1) = 1 /\ Len(hl2) = 1
    /\ hl1[1].make = <<65, 66>> /\ hl1[1].model = <<>>
    /\ hl2[1].make = <<65>> /\ hl2[1].model = <<66>>
    /\ hl1[1].serial = hl2[1].serial
    /\ lidFile = Some(LidOpen)

(***************************************************************************)
(* Properties of the invocations (under Spec).  While inv.cmd is not       *)
(* "none", monitors and lidFile are what that invocation enumerated.       *)
(***************************************************************************)
ActiveMonitors == {i \in DOMAIN monitors : ~LidExcluded(monitors[i], lidFile)}
ExcludedMonitors == {i \in DOMAIN monitors : LidExcluded(monitors[i], lidFile)}

MonitorId(i) == <<monitors[i].make, monitors[i].model, monitors[i].serial>>

DistinctActiveIds ==
    \A i, j \in ActiveMonitors : MonitorId(i) = MonitorId(j) => i = j

\* the entries of the list handed to apply that carry the name n
AppliedFor(n) == {j \in DOMAIN inv.applied[1] : inv.applied[1][j].name = Some(n)}

\* the error is one of reconciliation (load, length check, identity check)
ReconcileFailed ==
    /\ inv.err # None
    /\ inv.err[1].kind \in {"NotFound", "Corrupt", "LengthMismatch", "IdentityMismatch"}

\* C1: a restore that runs after a save of the same active identities, all
\* of them distinct, hands to apply, for every active monitor, exactly one
\* entry with the monitor's current name, and that entry carries the
\* geometry (or None) the monitor of that identity had when saved.
C1_RoundTrip ==
    (/\ inv.cmd = "restore"
     /\ ActiveIdBag(monitors, lidFile) \in DOMAIN savedAt
     /\ DistinctActiveIds)
    => /\ inv.applied # None
       /\ \A i \in ActiveMonitors :
            /\ Cardinality(AppliedFor(monitors[i].name)) = 1
            /\ \A j \in AppliedFor(monitors[i].name) :
                  /\ Identity(inv.applied[1][j]) = MonitorId(i)
                  /\ <<MonitorId(i), inv.applied[1][j].config>>
                        \in savedAt[ActiveIdBag(monitors, lidFile)]

\* a restore of two distinct active monitors that the provider lists against
\* the canonical order, one of them now on although it was saved as off
C1_Witness ==
    /\ inv.cmd = "restore" /\ inv.applied # None
    /\ ActiveIdBag(monitors, lidFile) \in DOMAIN savedAt
    /\ DistinctActiveIds
    /\ Cardinality(ActiveMonitors) = 2
    /\ \E i, j \in ActiveMonitors :
          /\ i < j /\ MonitorId(i) = ExternalId /\ MonitorId(j) = PanelId
          /\ ~monitors[i].disabled
          /\ <<ExternalId, None>> \in savedAt[ActiveIdBag(monitors, lidFile)]
          /\ \E k \in AppliedFor(monitors[i].name) : inv.applied[1][k].config = None

\* C4: a monitor named by the lid rule while the indicator file ends in
\* "closed" does not count for the fingerprint (the path is the one of the
\* enumeration without it), is not in the snapshot a save writes, and is the
\* last entry, without configuration, of the list a restore hands to apply.
C4_LidExclusion ==
    \A i \in ExcludedMonitors :
        /\ inv.cmd # "none" =>
              inv.path = Some(StatePath(prog, ActiveHeads(RemoveAt(monitors, i), Some(LidOpen))))
        /\ inv.cmd = "save" =>
              /\ inv.path[1] \in DOMAIN store
              /\ store[inv.path[1]].kind = "array"
              /\ Len(store[inv.path[1]].items) = Cardinality(ActiveMonitors)
              /\ \A id \in IdPool :
                    Cardinality({k \in DOMAIN store[inv.path[1]].items :
                        LET o == store[inv.path[1]].items[k]
                        IN  <<o.make, o.model, o.serial>> = id})
                    = Cardinality({k \in ActiveMonitors : MonitorId(k) = id})
        /\ (inv.cmd = "restore" /\ inv.applied # None) =>
              LET list == inv.applied[1]
              IN  /\ Len(list) = Cardinality(ActiveMonitors) + 1
                  /\ list[Len(list)].name = Some(monitors[i].name)
                  /\ list[Len(list)].config = None
                  /\ AppliedFor(monitors[i].name) = {Len(list)}

\* a restore handed a list to apply while the lid-ruled monitor, reported as
\* enabled, was excluded next to an active one
C4_Witness ==
    /\ inv.cmd = "restore" /\ inv.applied # None
    /\ ActiveMonitors # {}
    /\ \E i \in ExcludedMonitors : ~monitors[i].disabled

\* C5: a restore without --fallback-to-default whose reconciliation fails
\* ends with a failure status and sends nothing to the provider (stated for
\* a monitor set that is not empty).
C5_HardFailure ==
    (inv.cmd = "restore" /\ ~inv.flag /\ ReconcileFailed /\ ActiveMonitors # {})
    => (inv.exit = "fail" /\ inv.applied = None /\ inv.fallback = None)

\* C6: with --fallback-to-default the fallback is sent exactly when
\* reconciliation failed; when reconciliation succeeded and the provider
\* refused the reconciled list, the invocation fails and sends no fallback
\* (stated for a monitor set that is not empty).
C6_FallbackOnlyOnReconcile ==
    (inv.cmd = "restore" /\ inv.flag /\ ActiveMonitors # {})
    => /\ (inv.fallback # None) <=> ReconcileFailed
       /\ (inv.applied # None /\ inv.err # None) =>
              (inv.exit = "fail" /\ inv.fallback = None)

\* the instructions of the fallback that concern the output n
FallbackFor(n) == {k \in DOMAIN inv.fallback[1] : inv.fallback[1][k].output = n}

\* C9: a fallback turns on every active monitor and turns off every
\* excluded one.
C9_FallbackCoversAll ==
    (inv.cmd = "restore" /\ inv.fallback # None)
    => /\ \A i \in ActiveMonitors :
            \E k \in FallbackFor(monitors[i].name) : inv.fallback[1][k].state = "on"
       /\ \A i \in ExcludedMonitors :
            \E k \in FallbackFor(monitors[i].name) : inv.fallback[1][k].state = "off"

\* the "on" instructions of the fallback, in the order sent
FallbackOn == SelectSeq(inv.fallback[1], LAMBDA c : c.state = "on")

\* position of the active monitor i among the active ones as enumerated
EnumRank(i) == Cardinality({j \in ActiveMonitors : j <= i})

\* position of the active monitor i among the active ones in the order of
\* Head::cmp_mms, monitors that compare Equal staying as enumerated
CanonRank(i) ==
    Cardinality({j \in ActiveMonitors :
        \/ cmp_mms(monitors[j], monitors[i]) = "Less"
        \/ cmp_mms(monitors[j], monitors[i]) = "Equal" /\ j <= i})

\* the wlr-randr fallback tiles the active monitors by Rank: the first at
\* 0,0, each other one right of its predecessor
TiledBy(Rank(_)) ==
    /\ Len(FallbackOn) = Cardinality(ActiveMonitors)
    /\ \A i \in ActiveMonitors :
          /\ FallbackOn[Rank(i)].output = monitors[i].name
          /\ Rank(i) = 1 => FallbackOn[Rank(i)].place = [kind |-> "pos", x |-> 0, y |-> 0]
          /\ \A j \in ActiveMonitors :
                Rank(j) + 1 = Rank(i) =>
                    FallbackOn[Rank(i)].place = [kind |-> "right-of", of |-> monitors[j].name]

WlrRandrFellBack ==
    inv.cmd = "restore" /\ inv.fallback # None /\ inv.backend = "WlrRandr"

\* C10 as stated: the wlr-randr fallback tiles the active monitors left to
\* right from 0,0 in the order the provider enumerated them.
C10_EnumerationOrder == WlrRandrFellBack => TiledBy(EnumRank)

\* C10 as amended: the wlr-randr fallback tiles the active monitors left to
\* right from 0,0 in the order of the sorted `heads`, that is by (make, model,
\* serial), monitors of equal identity in enumeration order.
C10_CanonicalOrder == WlrRandrFellBack => TiledBy(CanonRank)

\* a wlr-randr fallback for two active monitors that the provider lists
\* against the canonical order
C10_Witness ==
    /\ WlrRandrFellBack
    /\ Cardinality(ActiveMonitors) = 2
    /\ \E i, j \in ActiveMonitors :
          i < j /\ cmp_mms(monitors[j], monitors[i]) = "Less"

(***************************************************************************)
(* Properties of restore against whatever the file holds (SpecForeign).    *)
(***************************************************************************)
CurrentPath == StatePath(prog, ActiveHeads(monitors, lidFile))

\* the file restore reads exists and parses
Loadable == CurrentPath \in DOMAIN store /\ ParseOk(store[CurrentPath])

\* number of active monitors at each save so far
SavedSizes == {BagCardinality(b) : b \in DOMAIN savedAt}

\* restore runs with 3 active monitors, and the store holds nothing but a
\* snapshot saved with 2
TwoSavedThreeConnected ==
    /\ inv.cmd = "restore"
    /\ Pristine /\ SavedSizes = {2}
    /\ Cardinality(ActiveMonitors) = 3

\* C7 as stated: saved with 2, restored with 3: restore fails with a length
\* mismatch and applies nothing.
C7_TwoThenThree ==
    TwoSavedThreeConnected =>
        /\ inv.err # None /\ inv.err[1].kind = "LengthMismatch"
        /\ inv.applied = None

\* C7 as amended: saved with 2, restored with 3: restore fails because no
\* snapshot is found under the fingerprint of the 3, and applies nothing;
\* and whenever the snapshot that is loaded has another number of records
\* than there are active monitors, restore fails with a length mismatch,
\* whatever the identities, and applies nothing.
C7_LengthFailsClosed ==
    /\ TwoSavedThreeConnected =>
          /\ inv.err = Some(Err("NotFound"))
          /\ inv.applied = None
    /\ (/\ inv.cmd = "restore" /\ Loadable
        /\ Len(store[CurrentPath].items) # Cardinality(ActiveMonitors)) =>
          /\ inv.err = Some([kind |-> "LengthMismatch",
                             saved |-> Len(store[CurrentPath].items),
                             connected |-> Cardinality(ActiveMonitors)])
          /\ inv.applied = None

\* restore with 3 active monitors after a save with 2 has run and failed
C7_Witness == TwoSavedThreeConnected /\ inv.err # None /\ inv.exit = "fail"

\* the loaded snapshot in canonical order, and the active monitors in
\* canonical order, as identities
SortedSnapshotIds ==
    LET l == sort_by_cmp_mms(from_slice(prog, store[CurrentPath]))
    IN  [k \in DOMAIN l |-> Identity(l[k])]

SortedActiveId(k) == MonitorId(CHOOSE i \in ActiveMonitors : CanonRank(i) = k)

\* 0-based indices at which the two disagree
Disagree ==
    {k \in 0..(Cardinality(ActiveMonitors) - 1) :
        SortedSnapshotIds[k + 1] # SortedActiveId(k + 1)}

SameCountOtherIds ==
    /\ inv.cmd = "restore" /\ Loadable
    /\ Len(store[CurrentPath].items) = Cardinality(ActiveMonitors)
    /\ Disagree # {}

\* C8: when the loaded snapshot has as many records as there are active
\* monitors but, both in canonical order, some index holds other identities,
\* restore fails with an identity mismatch that names the smallest such
\* index, and applies nothing.
C8_IdentityFailsClosed ==
    SameCountOtherIds =>
        /\ inv.err = Some([kind |-> "IdentityMismatch", idx |-> Min(Disagree)])
        /\ inv.applied = None

\* a restore that met a snapshot agreeing at index 0 and disagreeing at 1
C8_Witness == SameCountOtherIds /\ Min(Disagree) = 1

(***************************************************************************)
(* The state directory with more than one snapshot in it.  SpecStore lets  *)
(* monitors come (at the end of the enumeration, under their usual name)   *)
(* and go between invocations; the lid stays open.                         *)
(***************************************************************************)
\* snapshot files the state directory holds at most under SpecStore
MaxStoreFiles == 2

\* the name a monitor gets when plugged in: the panel eDP-1, an external
\* monitor the first free DP-n
PlugName(id) ==
    IF id = PanelId THEN "eDP-1"
    ELSE IF "DP-1" \notin UsedNames THEN "DP-1" ELSE "DP-2"

Plug ==
    /\ NoInvocation
    /\ \E id \in IdPool, disabled \in BOOLEAN :
          /\ Connected(id) < Stock(id)
          /\ monitors' = Append(monitors, Monitor(PlugName(id), id, disabled))
    /\ UNCHANGED <<prog, lidFile, store, savedAt, inv, hashVars, raceVars, enumVars>>

StoreNext ==
    \/ SaveUpTo(MaxStoreFiles)
    \/ Restore
    \/ Info
    \/ Exit
    \/ Plug
    \/ Disconnect

SpecStore == Init /\ [][StoreNext]_vars

(***************************************************************************)
(* Properties of the store (under SpecStore).                              *)
(***************************************************************************)
\* C11: the store changes only in a step in which a save runs, and then
\* only at the path of that invocation's active heads: that file becomes
\* exactly the snapshot of those heads, every other file stays as it was and
\* no other file appears; a restore or an info step leaves the store as it is.
C11_OnlySaveWrites ==
    [][/\ store' # store =>
            /\ inv.cmd = "none" /\ inv'.cmd = "save"
            /\ DOMAIN store' = DOMAIN store \cup {inv'.path[1]}
            /\ store'[inv'.path[1]] = SaveContent(prog, inv'.heads)
            /\ \A q \in DOMAIN store \ {inv'.path[1]} : store'[q] = store[q]
       /\ inv'.cmd \in {"restore", "info"} => store' = store]_vars

\* a save has run while the directory held a snapshot of another monitor set
C11_Witness ==
    /\ inv.cmd = "save"
    /\ Cardinality(DOMAIN store) = 2
    /\ \E q \in DOMAIN store : q # inv.path[1] /\ Len(store[q].items) > 0
    /\ Len(store[inv.path[1]].items) = 2

(***************************************************************************)
(* The exclusion filter on its own: SpecLid starts from any of a set of    *)
(* enumerations and indicator contents and runs one invocation.            *)
(***************************************************************************)
\* what std::fs::read(file) can give: an error (None), or
\* "closed\n", "closed", "open\n", "", "closed \t\r\n", "xclosed",
\* "closedx", "\nclosed", " \n", "close", "Closed\n", "closed\nopen\n"
LidProbe ==
    {None,
     Some(<<99, 108, 111, 115, 101, 100, 10>>),
     Some(<<99, 108, 111, 115, 101, 100>>),
     Some(<<111, 112, 101, 110, 10>>),
     Some(<<>>),
     Some(<<99, 108, 111, 115, 101, 100, 32, 9, 13, 10>>),
     Some(<<120, 99, 108, 111, 115, 101, 100>>),
     Some(<<99, 108, 111, 115, 101, 100, 120>>),
     Some(<<10, 99, 108, 111, 115, 101, 100>>),
     Some(<<32, 10>>),
     Some(<<99, 108, 111, 115, 101>>),
     Some(<<67, 108, 111, 115, 101, 100, 10>>),
     Some(<<99, 108, 111, 115, 101, 100, 10, 111, 112, 101, 110, 10>>)}

\* enumerations of up to two monitors under any names, on or off
LidEnums ==
    {<<>>}
    \cup {<<Monitor(n, id, d)>> : n \in Names, id \in IdPool, d \in BOOLEAN}
    \cup UNION {IF n1 = n2 THEN {} ELSE
                {<<Monitor(n1, PanelId, FALSE), Monitor(n2, ExternalId, TRUE)>>,
                 <<Monitor(n2, ExternalId, FALSE), Monitor(n1, PanelId, FALSE)>>} :
                    n1 \in Names, n2 \in Names}

LidInit ==
    /\ prog \in Progs
    /\ monitors \in LidEnums
    /\ lidFile \in LidProbe
    /\ store = <<>> /\ savedAt = <<>> /\ inv = Idle
    /\ hl1 = <<>> /\ hl2 = <<>> /\ fp1 = None /\ fp2 = None
    /\ RaceIdle /\ EnumIdle

LidNext == Info \/ Restore \/ Exit

SpecLid == LidInit /\ [][LidNext]_vars

(***************************************************************************)
(* Properties of the exclusion filter (under SpecLid).                     *)
(***************************************************************************)
\* some lid rule names n
RuleNames(n) == \E r \in DOMAIN LidRules : LidRules[r].head = n

\* the indicator was read and is "closed" followed by nothing but ASCII
\* whitespace (tab, line feed, form feed, carriage return, space)
ClosedIndicator(lf) ==
    /\ lf # None
    /\ \E k \in 0..Len(lf[1]) :
          /\ k + 6 <= Len(lf[1])
          /\ \A j \in 1..6 : lf[1][k + j] = <<99, 108, 111, 115, 101, 100>>[j]
          /\ \A j \in (k + 7)..Len(lf[1]) : lf[1][j] \in {9, 10, 12, 13, 32}

\* the entries of the invocation's ignored / active list under the name n
IgnoredAs(n) == {k \in DOMAIN inv.ignored_heads : inv.ignored_heads[k].name = Some(n)}
ActiveAs(n) == {k \in DOMAIN inv.heads : inv.heads[k].name = Some(n)}

\* C12: an enumerated monitor is in the ignored list exactly when a lid rule
\* names it and the indicator was read and ends, up to trailing whitespace,
\* in "closed"; with an unreadable indicator it is active; every monitor is
\* in exactly one of the two lists, once, and the lists hold nothing else.
C12_FailOpen ==
    inv.cmd # "none" =>
       /\ Len(inv.heads) + Len(inv.ignored_heads) = Len(monitors)
       /\ \A i \in DOMAIN monitors :
             /\ IgnoredAs(monitors[i].name) # {}
                   <=> (RuleNames(monitors[i].name) /\ ClosedIndicator(lidFile))
             /\ lidFile = None => ActiveAs(monitors[i].name) # {}
             /\ Cardinality(IgnoredAs(monitors[i].name))
                   + Cardinality(ActiveAs(monitors[i].name)) = 1

\* an invocation has enumerated the lid-ruled monitor next to another one
\* while the indicator could not be read
C12_Witness ==
    /\ inv.cmd # "none"
    /\ lidFile = None
    /\ Len(monitors) = 2
    /\ \E i \in DOMAIN monitors : monitors[i].name = "eDP-1"

(***************************************************************************)
(* The fallback as a function of the name lists (under SpecForeign, where  *)
(* the store holds nothing, a fitting snapshot, or a foreign file).        *)
(***************************************************************************)
\* the names of the active monitors in the order of Head::cmp_mms
ActiveNamesCanon ==
    [k \in 1..Cardinality(ActiveMonitors) |->
        monitors[CHOOSE i \in ActiveMonitors : CanonRank(i) = k].name]

\* the names of the excluded monitors as enumerated
ExcludedNames ==
    LET ex == SelectSeq(monitors, LAMBDA m : LidExcluded(m, lidFile))
    IN  [k \in DOMAIN ex |-> ex[k].name]

HeadText(o) ==
    <<[t |-> "{"]>>
    \o (IF "name" \in DOMAIN o THEN <<[t |-> "name", str |-> o.name]>> ELSE <<>>)
    \o <<[t |-> "make", str |-> o.make], [t |-> "model", str |-> o.model],
         [t |-> "serial", str |-> o.serial]>>
    \o (IF "config" \in DOMAIN o THEN <<[t |-> "config", obj |-> o.config]>> ELSE <<>>)
    \o <<[t |-> "}"]>>

RECURSIVE ItemsText(_)
ItemsText(items) ==
    IF items = <<>> THEN <<>> ELSE HeadText(items[1]) \o ItemsText(Tail(items))

\* the text serde_json::to_string_pretty returns
Text(content) == <<[t |-> "["]>> \o ItemsText(content.items) \o <<[t |-> "]"]>>

\* what a save invocation may find enumerated: the external monitor and the
\* panel, each on or off
RaceMonitors(d1, d2) ==
    <<Monitor("DP-1", ExternalId, d1), Monitor("eDP-1", PanelId, d2)>>

\* File::create: the file exists and is empty
Truncate(f) == Some(<<>>)

\* write at offset 0 into the file as it is: bytes behind the buffer stay
WriteAt0(f, b) == b \o SubSeq(f, Len(b) + 1, Len(f))

\* the invocation enumerates, sorts and serializes
RaceEnumerate(p) ==
    /\ pc[p] = "start"
    /\ \E d1 \in BOOLEAN, d2 \in BOOLEAN :
          buf' = [buf EXCEPT ![p] =
                     Text(SaveContent(prog, ActiveHeads(RaceMonitors(d1, d2), lidFile)))]
    /\ pc' = [pc EXCEPT ![p] = "serialized"]
    /\ UNCHANGED <<progVars, hashVars, enumVars, disk, lastWriter, seen>>

\* std::fs::write, first half: File::create
RaceCreate(p) ==
    /\ pc[p] = "serialized"
    /\ disk' = Truncate(disk)
    /\ pc' = [pc EXCEPT ![p] = "created"]
    /\ UNCHANGED <<progVars, hashVars, enumVars, buf, lastWriter, seen>>

\* std::fs::write, second half: write_all and close
RaceWrite(p) ==
    /\ pc[p] = "created"
    /\ disk' = Some(WriteAt0(disk[1], buf[p]))
    /\ lastWriter' = p
    /\ pc' = [pc EXCEPT ![p] = "done"]
    /\ UNCHANGED <<progVars, hashVars, enumVars, buf, seen>>

\* the restore's std::fs::read(&path): an error (None) or the file as it is
RaceRead ==
    /\ seen = None
    /\ seen' = Some(disk)
    /\ UNCHANGED <<progVars, hashVars, enumVars, disk, pc, buf, lastWriter>>

RaceNext ==
    \/ \E p \in Savers : RaceEnumerate(p)
    \/ \E p \in Savers : RaceCreate(p)
    \/ \E p \in Savers : RaceWrite(p)
    \/ RaceRead

SpecRace == Init /\ [][RaceNext]_vars

(***************************************************************************)
(* Properties of concurrent saves (under SpecRace).                        *)
(***************************************************************************)
BothDone == \A p \in Savers : pc[p] = "done"

\* C14: when both save invocations have completed, the file holds exactly
\* the text of the invocation whose write came last.
C14_LastWriterWins == BothDone => disk = Some(buf[lastWriter])

(***************************************************************************)
(* Properties of the stored snapshots (under Spec: the store starts empty  *)
(* and only invocations touch it).                                         *)
(***************************************************************************)
\* record a does not come after record b by make, then model, then serial
NotAfter(a, b) ==
    \/ StrCmp(a.make, b.make) = "Less"
    \/ /\ a.make = b.make
       /\ \/ StrCmp(a.model, b.model) = "Less"
          \/ a.model = b.model /\ StrCmp(a.serial, b.serial) # "Greater"

\* C15: every file of the store is an array of records in (make, model,
\* serial) order, and the fingerprint of its records, in the order they are
\* stored, is the one in the file's name; so no restore meets a length or
\* identity mismatch.
C15_CanonicalStore ==
    /\ \A q \in DOMAIN store :
          /\ store[q].kind = "array"
          /\ \A i, j \in DOMAIN store[q].items :
                i < j => NotAfter(store[q].items[i], store[q].items[j])
          /\ q = [prefix |-> prog, digest |-> hash_heads(store[q].items), ext |-> "json"]
    /\ (inv.cmd = "restore" /\ inv.err # None)
          => inv.err[1].kind \notin {"Corrupt", "LengthMismatch", "IdentityMismatch"}

\* a save has stored two records while the provider listed the monitor that
\* sorts last first
C15_Witness ==
    /\ inv.cmd = "save"
    /\ Len(monitors) = 2 /\ ActiveMonitors = {1, 2}
    /\ MonitorId(1) = ExternalId /\ MonitorId(2) = PanelId
    /\ inv.path[1] \in DOMAIN store
    /\ Len(store[inv.path[1]].items) = 2

(***************************************************************************)
(* Enumeration on its own: one display as a provider reports it, and the   *)
(* Head the program makes of it.                                           *)
(***************************************************************************)
\* modes as wlr-randr lists them: none, the current one, a current one
\* behind another, one that is not current
ModeLists ==
    {<<>>,
     <<[width |-> 1920, height |-> 1080, refresh |-> 60, current |-> TRUE]>>,
     <<[width |-> 1920, height |-> 1080, refresh |-> 60, current |-> FALSE],
       [width |-> 2560, height |-> 1440, refresh |-> 144, current |-> TRUE]>>,
     <<[width |-> 2560, height |-> 1440, refresh |-> 144, current |-> FALSE]>>}

\* struct WlrRandrHead, as deserialized from wlr-randr --json
WlrRandrReports ==
    [kind : {"wlr_randr"}, name : {"DP-1"},
     make : {None, Some(<<67>>)}, model : {Some(<<68>>)}, serial : {None, Some(<<50>>)},
     enabled : BOOLEAN,
     position : {None, Some([x |-> 1920, y |-> 0])},
     modes : ModeLists,
     transform : {None, Some("normal"), Some("flipped-90")},
     scale : {None, Some(2)},
     adaptive_sync : {None, Some(TRUE)}]

\* struct HyprctlHead (hyprctl -j monitors all) and hyprland's Monitor
MonitorReports ==
    [kind : {"hyprctl", "native"},
     mon : {Monitor(n, id, d) : n \in Names, id \in IdPool, d \in BOOLEAN}]

Reports == WlrRandrReports \cup MonitorReports

\* Option::unwrap_or
unwrap_or(o, d) == IF o = None THEN d ELSE o[1]

\* the match on the transform string
TransformCode(t) ==
    CASE t = "90" -> 1
      [] t = "180" -> 2
      [] t = "270" -> 3
      [] t = "flipped" -> 4
      [] t = "flipped-90" -> 5
      [] t = "flipped-180" -> 6
      [] t = "flipped-270" -> 7
      [] OTHER -> 0

\* modes.iter().position(|m| m.current).unwrap_or_default(), 1-based
ModeIdx(modes) ==
    LET cur == {i \in DOMAIN modes : modes[i].current}
    IN  IF cur = {} THEN 1 ELSE Min(cur)

\* WlrRandrHead::make_head
WlrRandrMakeHead(r) ==
    [name |-> Some(r.name),
     make |-> unwrap_or(r.make, <<>>),
     model |-> unwrap_or(r.model, <<>>),
     serial |-> unwrap_or(r.serial, <<>>),
     config |->
        IF r.enabled /\ r.modes # <<>>
        THEN LET mode == r.modes[ModeIdx(r.modes)]
             IN  Some([x |-> IF r.position = None THEN 0 ELSE r.position[1].x,
                       y |-> IF r.position = None THEN 0 ELSE r.position[1].y,
                       width |-> mode.width, height |-> mode.height,
                       refresh_rate |-> mode.refresh,
                       scale |-> unwrap_or(r.scale, 1),
                       vrr |-> unwrap_or(r.adaptive_sync, FALSE),
                       transform |-> TransformCode(unwrap_or(r.transform, ""))])
        ELSE None]

\* the conversion each provider's report goes through
MakeHeadOf(r) ==
    IF r.kind = "wlr_randr" THEN WlrRandrMakeHead(r) ELSE make_head(r.mon)

\* the provider reports a display
Report ==
    /\ raw = None
    /\ \E r \in Reports : raw' = Some(r)
    /\ UNCHANGED <<progVars, hashVars, raceVars, made>>

\* the program makes its Head
MakeHead ==
    /\ raw # None /\ made = None
    /\ made' = Some(MakeHeadOf(raw[1]))
    /\ UNCHANGED <<progVars, hashVars, raceVars, raw>>

EnumNext == Report \/ MakeHead

SpecEnum == Init /\ [][EnumNext]_vars

(***************************************************************************)
(* Properties of enumeration (under SpecEnum).                             *)
(***************************************************************************)
\* the provider reports the display as disabled / off
ReportedOff(r) == IF r.kind = "wlr_randr" THEN ~r.enabled ELSE r.mon.disabled

\* C16: the Head made of a report has no config exactly when the provider
\* reports the display as off.
C16_DisabledIffNoConfig ==
    made # None => (made[1].config = None <=> ReportedOff(raw[1]))

====
